---------------------------- MODULE Spec2Model ----------------------------
(***************************************************************************)
(* Model of src/app.py: the Steam game downloader.                         *)
(*                                                                         *)
(*   extract_game_id      the regular expression of line 76 over strings   *)
(*   validate_credentials the decision rule of lines 92-98                 *)
(*   download_worker      the worker thread: child process, line loop,     *)
(*                        progress parsing, terminal signal                *)
(*   handle_download      the click handler: checks, thread start and the  *)
(*                        polling loop over progress_queue                 *)
(*                                                                         *)
(* A Python str is a sequence of one-character strings, so that prefix     *)
(* tests, substring tests and the two regular expressions are computed on  *)
(* the characters.  A float is an exact fraction [num, den]; a fraction    *)
(* with den = 0 is a division that raises ZeroDivisionError.               *)
(***************************************************************************)
EXTENDS Integers, Sequences, FiniteSets, TLC

\* ------------------------------------------------------------------ bounds

\* longest game_input string of SpecExtract
MaxLen == 6
\* most lines the child process prints with a newline before closing its output
MaxLines == 2
\* largest elapsed wall-clock time, in seconds
MaxElapsed == 1

\* ----------------------------------------------------------------- strings

Digits == {"0", "1", "2", "3", "4", "5", "6", "7", "8", "9"}

IsDigit(c) == c \in Digits

\* str.startswith(prefix)
StartsWith(s, prefix) ==
    /\ Len(prefix) <= Len(s)
    /\ SubSeq(s, 1, Len(prefix)) = prefix

\* the literal lit stands in s at index i (1-based)
HasAt(s, i, lit) ==
    /\ i >= 1
    /\ i + Len(lit) - 1 <= Len(s)
    /\ SubSeq(s, i, i + Len(lit) - 1) = lit

\* `sub in s`
Contains(s, sub) == \E i \in 1..(Len(s) + 1) : HasAt(s, i, sub)

\* the index after the longest run of digits that starts at i (i itself when
\* s[i] is no digit): what a greedy \d+ consumes, or nothing
RECURSIVE DigitsEnd(_, _)
DigitsEnd(s, i) ==
    IF i <= Len(s) /\ IsDigit(s[i]) THEN DigitsEnd(s, i + 1) ELSE i

DigitValue(c) ==
    CASE c = "0" -> 0 [] c = "1" -> 1 [] c = "2" -> 2 [] c = "3" -> 3
      [] c = "4" -> 4 [] c = "5" -> 5 [] c = "6" -> 6 [] c = "7" -> 7
      [] c = "8" -> 8 [] c = "9" -> 9

\* int(s) of a string of decimal digits
RECURSIVE ParseInt(_)
ParseInt(s) ==
    IF s = <<>> THEN 0
    ELSE 10 * ParseInt(SubSeq(s, 1, Len(s) - 1)) + DigitValue(s[Len(s)])

\* str.isdigit()
IsDigitStr(s) == Len(s) > 0 /\ \A i \in 1..Len(s) : IsDigit(s[i])

\* all strings over alphabet of length at most n
RECURSIVE StringsUpTo(_, _)
StringsUpTo(alphabet, n) ==
    IF n = 0 THEN {<<>>}
    ELSE LET shorter == StringsUpTo(alphabet, n - 1)
         IN  shorter \cup {Append(s, c) : s \in shorter, c \in alphabet}

\* --------------------------------------------------------- extract_game_id

S_app == <<"a", "p", "p", "/">>

\* one attempt of (?:app/|^)(\d+) at index i: the alternative app/ is tried
\* first, then ^, which holds at the start of the string only; the value is
\* the index where group 1 starts, 0 when the pattern does not match at i
GameIdGroupStartNoAnchor(s, i) ==
    IF HasAt(s, i, S_app) /\ DigitsEnd(s, i + 4) > i + 4 THEN i + 4
    ELSE IF DigitsEnd(s, i) > i THEN i
    ELSE 0

GameIdGroupStart(s, i) ==
    IF HasAt(s, i, S_app) /\ DigitsEnd(s, i + 4) > i + 4 THEN i + 4
    ELSE IF i = 1 /\ DigitsEnd(s, i) > i THEN i
    ELSE 0

\* re.search: the match at the leftmost index that has one; 0 when none
GameIdSearch(s) ==
    LET hits == {i \in 1..(Len(s) + 1) : GameIdGroupStart(s, i) # 0}
    IN  IF hits = {} THEN 0
        ELSE GameIdGroupStart(s, CHOOSE i \in hits : \A j \in hits : i <= j)

\* extract_game_id(input_str): [ok |-> TRUE, id |-> group 1] or the ValueError
extract_game_id(input_str) ==
    LET g     == GameIdSearch(input_str)
        group == IF g = 0 THEN <<>>
                 ELSE SubSeq(input_str, g, DigitsEnd(input_str, g) - 1)
    IN  IF g # 0 /\ IsDigitStr(group)
        THEN [ok |-> TRUE, id |-> group]
        ELSE [ok |-> FALSE, id |-> <<>>]

\* ------------------------------------------------ download_worker: parsing

S_progress_colon == <<"p", "r", "o", "g", "r", "e", "s", "s", ":">>
S_progress_sp == <<"p", "r", "o", "g", "r", "e", "s", "s", ":", " ">>
S_error_colon == <<"e", "r", "r", "o", "r", ":">>
S_error_sp == <<"e", "r", "r", "o", "r", ":", " ">>
S_complete == <<"c", "o", "m", "p", "l", "e", "t", "e">>
S_download_failed ==
    <<"D", "o", "w", "n", "l", "o", "a", "d", " ", "f", "a", "i", "l", "e", "d">>
S_division_by_zero ==
    <<"d", "i", "v", "i", "s", "i", "o", "n", " ", "b", "y", " ", "z", "e", "r", "o">>
S_no_such_file ==
    <<"N", "o", " ", "s", "u", "c", "h", " ", "f", "i", "l", "e">>

\* one attempt of  progress: \d+\.\d+ \((\d+)/(\d+)\)  at index i.  Every \d+
\* is followed by a character that is no digit, so the greedy run is the only
\* way to match and no backtracking changes the groups.
ProgressMatchAt(s, i) ==
    LET a == i + Len(S_progress_sp)
        b == DigitsEnd(s, a)
        c == DigitsEnd(s, b + 1)
        e == DigitsEnd(s, c + 2)
        g == DigitsEnd(s, e + 1)
    IN  [ok |-> /\ HasAt(s, i, S_progress_sp)
                /\ b > a
                /\ HasAt(s, b, <<".">>)
                /\ c > b + 1
                /\ HasAt(s, c, <<" ", "(">>)
                /\ e > c + 2
                /\ HasAt(s, e, <<"/">>)
                /\ g > e + 1
                /\ HasAt(s, g, <<")">>),
         g1 |-> SubSeq(s, c + 2, e - 1),
         g2 |-> SubSeq(s, e + 1, g - 1)]

\* re.search(r'progress: \d+\.\d+ \((\d+)/(\d+)\)', line): the leftmost match
ProgressSearch(line) ==
    LET hits == {i \in 1..Len(line) : ProgressMatchAt(line, i).ok}
    IN  IF hits = {} THEN [ok |-> FALSE, g1 |-> <<>>, g2 |-> <<>>]
        ELSE ProgressMatchAt(line, CHOOSE i \in hits : \A j \in hits : i <= j)

\* a float as an exact fraction; den = 0 is a division by zero, which raises
Frac(n, d) == [num |-> n, den |-> d]

Raises(f) == f.den = 0

FracIsZero(f) == f.den # 0 /\ f.num = 0

\* f > 0
FracPositive(f) == f.den # 0 /\ f.num * f.den > 0

\* a == b, for fractions that did not raise
FracEq(a, b) == a.den # 0 /\ b.den # 0 /\ a.num * b.den = b.num * a.den

\* line 142 without its guard
SpeedUnguarded(downloaded, elapsed) == Frac(downloaded, elapsed)

\* line 142: speed = downloaded / elapsed if elapsed > 0 else 0
Speed(downloaded, elapsed) ==
    IF elapsed > 0 THEN Frac(downloaded, elapsed) ELSE Frac(0, 1)

\* line 143: remaining = (total_size - downloaded) / speed if speed > 0 else 0
Remaining(total_size, downloaded, speed) ==
    IF FracPositive(speed)
    THEN Frac((total_size - downloaded) * speed.den, speed.num)
    ELSE Frac(0, 1)

\* line 146: (downloaded / total_size) * 100
Percentage(downloaded, total_size) == Frac(downloaded * 100, total_size)

NoSample ==
    [percentage |-> Frac(0, 1), downloaded |-> 0, total |-> 0,
     elapsed |-> 0, remaining |-> Frac(0, 1)]

\* what travels on progress_queue: a str or a dict (isinstance tells them apart)
StrItem(text) == [kind |-> "str", text |-> text, sample |-> NoSample]

DictItem(sample) == [kind |-> "dict", text |-> <<>>, sample |-> sample]

\* lines 135-152, the body of the loop after the raw line was put, for one line
\* read at `elapsed` seconds after start_time:
\*   matched    the regular expression matched (line 137)
\*   speed, remaining   the locals of lines 142-143
\*   raised     an exception left the loop body (a ZeroDivisionError)
\*   sample     the dict of lines 145-151, put at line 152 unless raised
LoopBody(line, elapsed) ==
    LET m          == IF Contains(line, S_progress_colon)
                      THEN ProgressSearch(line)
                      ELSE [ok |-> FALSE, g1 |-> <<>>, g2 |-> <<>>]
        downloaded == ParseInt(m.g1)
        total_size == ParseInt(m.g2)
        speed      == Speed(downloaded, elapsed)
        remaining  == Remaining(total_size, downloaded, speed)
        percentage == Percentage(downloaded, total_size)
    IN  [matched   |-> m.ok,
         speed     |-> IF m.ok THEN speed ELSE Frac(0, 1),
         remaining |-> IF m.ok /\ ~Raises(speed) THEN remaining ELSE Frac(0, 1),
         raised    |-> m.ok /\ (Raises(speed) \/ Raises(remaining) \/ Raises(percentage)),
         sample    |-> IF m.ok
                       THEN [percentage |-> percentage, downloaded |-> downloaded,
                             total |-> total_size, elapsed |-> elapsed,
                             remaining |-> remaining]
                       ELSE NoSample]

\* the items one iteration of the loop of lines 130-152 puts for `line`
IterationPuts(line, elapsed) ==
    LET body == LoopBody(line, elapsed)
    IN  IF body.matched /\ ~body.raised
        THEN <<StrItem(line), DictItem(body.sample)>>
        ELSE <<StrItem(line)>>

\* the lines SpecParse feeds to the loop body, built from their parts
F_12_5 == <<"1", "2", ".", "5">>
F_0_0 == <<"0", ".", "0">>
F_50_0 == <<"5", "0", ".", "0">>
N_0 == <<"0">>
N_1 == <<"1">>
N_4 == <<"4">>
N_500 == <<"5", "0", "0">>
N_4000 == <<"4", "0", "0", "0">>
S_state == <<"s", "t", "a", "t", "e", " ", "(", "0", "x", "6", "1", ")", ",", " ">>
S_starting == <<"s", "t", "a", "r", "t", "i", "n", "g">>
S_hello == <<"h", "e", "l", "l", "o">>
NL == <<"\n">>

\* form "match":   <pre>progress: <f> (<d>/<t>)\n     the pattern of line 136
\* form "spaced":  <pre>progress: <f> (<d> / <t>)\n   blanks around the slash
\* form "bare":    <pre>progress: starting\n          'progress:' and no numbers
\* form "other":   <pre>hello\n                       no 'progress:' at all
BuildLine(parts) ==
    CASE parts.form = "match" ->
           parts.pre \o S_progress_sp \o parts.f \o <<" ", "(">> \o parts.d
             \o <<"/">> \o parts.t \o <<")">> \o NL
      [] parts.form = "spaced" ->
           parts.pre \o S_progress_sp \o parts.f \o <<" ", "(">> \o parts.d
             \o <<" ", "/", " ">> \o parts.t \o <<")">> \o NL
      [] parts.form = "bare" -> parts.pre \o S_progress_sp \o S_starting \o NL
      [] parts.form = "other" -> parts.pre \o S_hello \o NL

LineParts ==
    [form : {"match", "spaced", "bare", "other"},
     pre  : {<<>>, S_state},
     f    : {F_12_5, F_0_0, F_50_0},
     d    : {N_0, N_1, N_500},
     t    : {N_0, N_4, N_4000}]

\* the characters game_input is drawn from in SpecExtract
ExtractAlphabet == {"a", "p", "/", "5", "7"}

\* -------------------------------------------------------------- the state

VARIABLES
    \* the click's inputs (the arguments of handle_download)
    username, password, anonymous, game_input,
    \* handle_download
    hpc,                 \* where the handler stands
    game_id,             \* line 255
    validated,           \* what validate_credentials returned, "notcalled" before
    progress_info_bound, \* the local progress_info of line 284 has a value
    item,                \* line 275: the item the loop got last
    exc,                 \* the message of the exception the try block caught
    ui,                  \* the three output components as the browser shows them
    \* the worker thread (download_worker) and its queue
    alive,               \* thread.is_alive()
    wpc,                 \* where the worker stands
    line,                \* line 130: the line read last
    sample,              \* lines 145-151: the dict about to be put
    wexc,                \* the message of the exception download_worker caught
    progress_queue,      \* line 264
    puts,                \* history: every put of the worker, with the line that put it
    ngot,                \* history: how many items the loop has taken
    \* the child process (steamcmd)
    child,               \* "none", "running", "closed" (stdout closed), "exited"
    pipe,                \* lines written to stdout and not read yet
    emitted,             \* how many lines it wrote
    returncode,
    \* SpecExtract and SpecParse
    ex_input,    \* SpecExtract: the argument of extract_game_id
    ex_result,   \* SpecExtract: its result; ex_result.done is FALSE before the call
    pr_parts,    \* SpecParse: the parts the line was built from
    pr_elapsed,  \* SpecParse: time.time() - start_time when the line is read
    pr_out       \* SpecParse: what the iteration did; pr_out.done is FALSE before

inputVars == <<username, password, anonymous, game_input>>

handlerVars == <<hpc, game_id, validated, progress_info_bound, item, exc, ui>>

workerVars == <<alive, wpc, line, sample, wexc>>

queueVars == <<progress_queue, puts, ngot>>

childVars == <<child, pipe, emitted, returncode>>

mainVars == <<inputVars, handlerVars, workerVars, queueVars, childVars>>

exVars == <<ex_input, ex_result>>

prVars == <<pr_parts, pr_elapsed, pr_out>>

vars == <<mainVars, exVars, prVars>>

\* ------------------------------------------------------------- SpecExtract

ExNone == [done |-> FALSE, ok |-> FALSE, id |-> <<>>]

PrNone ==
    [done |-> FALSE, puts |-> <<>>, matched |-> FALSE, raised |-> FALSE,
     speed |-> Frac(0, 1), remaining |-> Frac(0, 1)]

\* the variables of the other specifications, at rest
ExIdle == ex_input = <<>> /\ ex_result = ExNone

PrIdle ==
    /\ pr_parts = [form |-> "other", pre |-> <<>>, f |-> F_0_0, d |-> N_0, t |-> N_0]
    /\ pr_elapsed = 0
    /\ pr_out = PrNone

NoItem == StrItem(<<>>)

UiInitial ==
    [progress_info |-> <<>>,
     error_output  |-> [visible |-> FALSE, value |-> <<>>],
     download_path |-> [visible |-> FALSE, value |-> <<>>]]

\* everything of the main specification before the click, but the inputs
MainRest ==
    /\ hpc = "extract"
    /\ game_id = <<>>
    /\ validated = "notcalled"
    /\ progress_info_bound = FALSE
    /\ item = NoItem
    /\ exc = <<>>
    /\ ui = UiInitial
    /\ alive = FALSE
    /\ wpc = "unstarted"
    /\ line = <<>>
    /\ sample = NoSample
    /\ wexc = <<>>
    /\ progress_queue = <<>>
    /\ puts = <<>>
    /\ ngot = 0
    /\ child = "none"
    /\ pipe = <<>>
    /\ emitted = 0
    /\ returncode = 0

MainIdle ==
    /\ username = <<>>
    /\ password = <<>>
    /\ anonymous = TRUE
    /\ game_input = <<>>
    /\ MainRest

ExInit ==
    /\ ex_input \in StringsUpTo(ExtractAlphabet, MaxLen)
    /\ ex_result = ExNone
    /\ PrIdle
    /\ MainIdle

\* game_id = extract_game_id(game_input)
ExCall ==
    /\ ~ex_result.done
    /\ ex_result' = [done |-> TRUE,
                     ok   |-> extract_game_id(ex_input).ok,
                     id   |-> extract_game_id(ex_input).id]
    /\ UNCHANGED <<ex_input, prVars, mainVars>>

ExNext == ExCall

SpecExtract == ExInit /\ [][ExNext]_vars

\* --------------------------------------------------------------- SpecParse

PrInit ==
    /\ pr_parts \in LineParts
    /\ pr_elapsed \in 0..MaxElapsed
    /\ pr_out = PrNone
    /\ ExIdle
    /\ MainIdle

\* one iteration of the loop of lines 130-152 on the line built from pr_parts
PrIterate ==
    /\ ~pr_out.done
    /\ LET text == BuildLine(pr_parts)
           body == LoopBody(text, pr_elapsed)
       IN  pr_out' = [done      |-> TRUE,
                      puts      |-> IterationPuts(text, pr_elapsed),
                      matched   |-> body.matched,
                      raised    |-> body.raised,
                      speed     |-> body.speed,
                      remaining |-> body.remaining]
    /\ UNCHANGED <<pr_parts, pr_elapsed, exVars, mainVars>>

PrNext == PrIterate

SpecParse == PrInit /\ [][PrNext]_vars

\* ------------------------------------------------------------ the main Spec

S_FAILED == <<"F", "A", "I", "L", "E", "D">>
S_login_failed ==
    <<"L", "o", "g", "i", "n", " ", "F", "a", "i", "l", "u", "r", "e", ":",
      " ", "F", "A", "I", "L", "E", "D", "\n">>
S_invalid_id ==
    <<"I", "n", "v", "a", "l", "i", "d", " ", "G", "a", "m", "e", " ", "I",
      "D", " ", "o", "r", " ", "U", "R", "L">>
S_creds_required ==
    <<"U", "s", "e", "r", "n", "a", "m", "e", " ", "a", "n", "d", " ", "p",
      "a", "s", "s", "w", "o", "r", "d", " ", "r", "e", "q", "u", "i", "r",
      "e", "d", " ", "w", "h", "e", "n", " ", "n", "o", "t", " ", "u", "s",
      "i", "n", "g", " ", "a", "n", "o", "n", "y", "m", "o", "u", "s", " ",
      "l", "o", "g", "i", "n">>
S_invalid_creds ==
    <<"I", "n", "v", "a", "l", "i", "d", " ", "S", "t", "e", "a", "m", " ",
      "c", "r", "e", "d", "e", "n", "t", "i", "a", "l", "s">>
\* stands for the message of the UnboundLocalError, which varies with the
\* interpreter's version
S_unbound_local ==
    <<"U", "n", "b", "o", "u", "n", "d", "L", "o", "c", "a", "l", "E", "r",
      "r", "o", "r">>
S_downloads == <<"/", "d", "o", "w", "n", "l", "o", "a", "d", "s", "/">>
S_download_complete ==
    <<"D", "o", "w", "n", "l", "o", "a", "d", " ", "C", "o", "m", "p", "l",
      "e", "t", "e", "!">>

\* what the click may carry
Usernames == {<<>>, <<"u">>}
Passwords == {<<>>, <<"p">>}
GameInputs ==
    {<<"a", "p", "p", "/", "5", "7", "0", "/">>,
     <<"a", "b", "c">>}

\* what steamcmd may write to stderr during +login ... +quit
StderrTexts == {<<>>, S_login_failed}

\* what steamcmd may print during the download: complete lines, and a last
\* line that the end of the stream cuts before its newline
L_progress ==
    S_progress_sp \o F_12_5 \o <<" ", "(">> \o N_500 \o <<"/">> \o N_4000
      \o <<")">> \o NL
L_zero_total ==
    S_progress_sp \o F_0_0 \o <<" ", "(">> \o N_0 \o <<"/">> \o N_0
      \o <<")">> \o NL
L_error ==
    <<"e", "r", "r", "o", "r", ":", " ", "d", "i", "s", "k", " ", "f", "u",
      "l", "l", "\n">>

ChildLines == {L_progress, L_zero_total, L_error}

ChildLastLines == {<<>>, S_complete}

\* lines 92-98: False when stderr holds FAILED or subprocess.run raised
validate_credentials(stderr, raised) ==
    IF raised THEN FALSE
    ELSE IF Contains(stderr, S_FAILED) THEN FALSE
    ELSE TRUE

\* lines 164-170, SHARE_URL being None: nothing in the file calls
\* update_share_url
generate_download_path(id) == S_downloads \o id \o <<"/">>

Init ==
    /\ username \in Usernames
    /\ password \in Passwords
    /\ anonymous \in BOOLEAN
    /\ game_input \in GameInputs
    /\ MainRest
    /\ ExIdle
    /\ PrIdle

otherVars == <<exVars, prVars>>

\* ---- handle_download, lines 253-306

\* the try block raised: control is at line 301 with the message
Caught(msg) ==
    /\ exc' = msg
    /\ hpc' = "except"

\* line 255: game_id = extract_game_id(game_input)
HExtract ==
    /\ hpc = "extract"
    /\ LET r == extract_game_id(game_input)
       IN  IF r.ok
           THEN /\ game_id' = r.id
                /\ hpc' = "creds"
                /\ UNCHANGED exc
           ELSE /\ Caught(S_invalid_id)
                /\ UNCHANGED game_id
    /\ UNCHANGED <<validated, progress_info_bound, item, ui>>
    /\ UNCHANGED <<inputVars, workerVars, queueVars, childVars, otherVars>>

\* lines 258-259
HCreds ==
    /\ hpc = "creds"
    /\ IF ~anonymous /\ (username = <<>> \/ password = <<>>)
       THEN Caught(S_creds_required)
       ELSE hpc' = "validate" /\ UNCHANGED exc
    /\ UNCHANGED <<game_id, validated, progress_info_bound, item, ui>>
    /\ UNCHANGED <<inputVars, workerVars, queueVars, childVars, otherVars>>

\* lines 261-262 with anonymous set: validate_credentials is not called
HValidateSkipped ==
    /\ hpc = "validate"
    /\ anonymous
    /\ hpc' = "start"
    /\ UNCHANGED <<game_id, validated, progress_info_bound, item, exc, ui>>
    /\ UNCHANGED <<inputVars, workerVars, queueVars, childVars, otherVars>>

\* lines 261-262: validate_credentials(username, password)
HValidate ==
    /\ hpc = "validate"
    /\ ~anonymous
    /\ \E stderr \in StderrTexts, raised \in BOOLEAN :
         IF validate_credentials(stderr, raised)
         THEN /\ validated' = "true"
              /\ hpc' = "start"
              /\ UNCHANGED exc
         ELSE /\ validated' = "false"
              /\ Caught(S_invalid_creds)
    /\ UNCHANGED <<game_id, progress_info_bound, item, ui>>
    /\ UNCHANGED <<inputVars, workerVars, queueVars, childVars, otherVars>>

\* what HStart does to the thread
ThreadStart ==
    /\ alive' = TRUE
    /\ wpc' = "setup"

\* lines 264-272: the queue is made and the thread started
HStart ==
    /\ hpc = "start"
    /\ progress_queue' = <<>>
    /\ ThreadStart
    /\ hpc' = "loop"
    /\ UNCHANGED <<game_id, validated, progress_info_bound, item, exc, ui>>
    /\ UNCHANGED <<line, sample, wexc, puts, ngot>>
    /\ UNCHANGED <<inputVars, childVars, otherVars>>

\* line 273: while thread.is_alive(); the generator returns when it is not
HLoop ==
    /\ hpc = "loop"
    /\ hpc' = IF alive THEN "get" ELSE "done"
    /\ UNCHANGED <<game_id, validated, progress_info_bound, item, exc, ui>>
    /\ UNCHANGED <<inputVars, workerVars, queueVars, childVars, otherVars>>

\* line 275: progress_queue.get(timeout=1) returns an item
HGet ==
    /\ hpc = "get"
    /\ progress_queue # <<>>
    /\ item' = Head(progress_queue)
    /\ progress_queue' = Tail(progress_queue)
    /\ ngot' = ngot + 1
    /\ hpc' = "handle"
    /\ UNCHANGED <<game_id, validated, progress_info_bound, exc, ui, puts>>
    /\ UNCHANGED <<inputVars, workerVars, childVars, otherVars>>

\* lines 275, 298-299: the second passes with the queue empty; queue.Empty
HGetEmpty ==
    /\ hpc = "get"
    /\ progress_queue = <<>>
    /\ hpc' = "loop"
    /\ UNCHANGED <<game_id, validated, progress_info_bound, item, exc, ui>>
    /\ UNCHANGED <<inputVars, workerVars, queueVars, childVars, otherVars>>

IsErrorItem(it) == it.kind = "str" /\ StartsWith(it.text, S_error_colon)

IsCompleteItem(it) == it.kind = "str" /\ it.text = S_complete

\* The handler yields a dict whose keys are meant to be the three output
\* components.  Line 284 assigns progress_info, which makes that name a local
\* of handle_download: once bound it is a str, and the key `progress_info` of
\* lines 286, 295 and 305 is that str, not the component.  What the framework
\* does with such a dict is not in the source: either it refuses it and drops
\* the generator (Refused), or it applies the entries keyed by components
\* (Applied); the Status textbox is updated by neither.
Applied(error_output, download_path) ==
    ui' = [ui EXCEPT !.error_output = error_output,
                     !.download_path = download_path]

Refused ==
    /\ hpc' = "dropped"
    /\ UNCHANGED ui

Hidden(component) == [component EXCEPT !.visible = FALSE]

\* lines 277-289: a progress sample
HSample ==
    /\ hpc = "handle"
    /\ item.kind = "dict"
    /\ progress_info_bound' = TRUE
    /\ \/ /\ Applied([visible |-> FALSE, value |-> <<>>], Hidden(ui.download_path))
          /\ hpc' = "loop"
       \/ Refused
    /\ UNCHANGED <<game_id, validated, item, exc>>
    /\ UNCHANGED <<inputVars, workerVars, queueVars, childVars, otherVars>>

\* lines 290-291: raise gr.Error(item[6:])
HErrorItem ==
    /\ hpc = "handle"
    /\ IsErrorItem(item)
    /\ Caught(SubSeq(item.text, 7, Len(item.text)))
    /\ UNCHANGED <<game_id, validated, progress_info_bound, item, ui>>
    /\ UNCHANGED <<inputVars, workerVars, queueVars, childVars, otherVars>>

\* lines 292-297 with progress_info unbound: building the dict raises
\* UnboundLocalError, inside the try block
HCompleteUnbound ==
    /\ hpc = "handle"
    /\ ~IsErrorItem(item)
    /\ IsCompleteItem(item)
    /\ ~progress_info_bound
    /\ Caught(S_unbound_local)
    /\ UNCHANGED <<game_id, validated, progress_info_bound, item, ui>>
    /\ UNCHANGED <<inputVars, workerVars, queueVars, childVars, otherVars>>

\* lines 292-297 with progress_info bound
HComplete ==
    /\ hpc = "handle"
    /\ ~IsErrorItem(item)
    /\ IsCompleteItem(item)
    /\ progress_info_bound
    /\ \/ /\ Applied([visible |-> FALSE, value |-> <<>>],
                     [visible |-> TRUE, value |-> generate_download_path(game_id)])
          /\ hpc' = "loop"
       \/ Refused
    /\ UNCHANGED <<game_id, validated, progress_info_bound, item, exc>>
    /\ UNCHANGED <<inputVars, workerVars, queueVars, childVars, otherVars>>

\* any other str: no branch of lines 277-297 takes it
HOtherItem ==
    /\ hpc = "handle"
    /\ item.kind = "str"
    /\ ~IsErrorItem(item)
    /\ ~IsCompleteItem(item)
    /\ hpc' = "loop"
    /\ UNCHANGED <<game_id, validated, progress_info_bound, item, exc, ui>>
    /\ UNCHANGED <<inputVars, workerVars, queueVars, childVars, otherVars>>

\* lines 301-306 with progress_info unbound: building the dict raises
\* UnboundLocalError, which leaves the generator
HExceptUnbound ==
    /\ hpc = "except"
    /\ ~progress_info_bound
    /\ hpc' = "crashed"
    /\ exc' = S_unbound_local
    /\ UNCHANGED <<game_id, validated, progress_info_bound, item, ui>>
    /\ UNCHANGED <<inputVars, workerVars, queueVars, childVars, otherVars>>

\* lines 301-306 with progress_info bound
HExcept ==
    /\ hpc = "except"
    /\ progress_info_bound
    /\ \/ /\ Applied([visible |-> TRUE, value |-> exc], Hidden(ui.download_path))
          /\ hpc' = "done"
       \/ Refused
    /\ UNCHANGED <<game_id, validated, progress_info_bound, item, exc>>
    /\ UNCHANGED <<inputVars, workerVars, queueVars, childVars, otherVars>>

Handler ==
    \/ HExtract \/ HCreds \/ HValidateSkipped \/ HValidate \/ HStart
    \/ HLoop \/ HGet \/ HGetEmpty
    \/ HSample \/ HErrorItem \/ HCompleteUnbound \/ HComplete \/ HOtherItem
    \/ HExceptUnbound \/ HExcept

\* ---- download_worker, lines 100-162

\* progress_queue.put(it) at the line `site` of the source
Put(it, site) ==
    /\ progress_queue' = Append(progress_queue, it)
    /\ puts' = Append(puts, [site |-> site, item |-> it])
    /\ UNCHANGED ngot

\* the except clause of lines 160-162 that puts nothing
WExceptSilent ==
    /\ wpc = "except"
    /\ wpc' = "return"
    /\ UNCHANGED <<progress_queue, puts, ngot>>
    /\ UNCHANGED <<alive, line, sample, wexc>>
    /\ UNCHANGED <<inputVars, handlerVars, childVars, otherVars>>

\* the terminal put of lines 155-158 that reports success whatever the code
TerminalItemAlwaysComplete(code) == StrItem(S_complete)

\* lines 155-158: the item put after process.wait()
TerminalItem(code) ==
    IF code # 0 THEN StrItem(S_error_sp \o S_download_failed)
    ELSE StrItem(S_complete)

TerminalSite(code) == IF code # 0 THEN "line156" ELSE "line158"

\* lines 103-128: the directory is made and steamcmd started; either raises
\* (FileNotFoundError, PermissionError, ...) when the system refuses
WSetup ==
    /\ wpc = "setup"
    /\ \/ /\ child' = "running"
          /\ wpc' = "read"
          /\ UNCHANGED wexc
       \/ /\ wexc' = S_no_such_file
          /\ wpc' = "except"
          /\ UNCHANGED child
    /\ UNCHANGED <<alive, line, sample, pipe, emitted, returncode>>
    /\ UNCHANGED <<inputVars, handlerVars, queueVars, otherVars>>

\* line 130: readline returns a line
WReadLine ==
    /\ wpc = "read"
    /\ pipe # <<>>
    /\ line' = Head(pipe)
    /\ pipe' = Tail(pipe)
    /\ wpc' = "put_line"
    /\ UNCHANGED <<alive, sample, wexc, child, emitted, returncode>>
    /\ UNCHANGED <<inputVars, handlerVars, queueVars, otherVars>>

\* line 130: readline returns '' at the end of the stream; then line 154
WReadEnd ==
    /\ wpc = "read"
    /\ pipe = <<>>
    /\ child \in {"closed", "exited"}
    /\ wpc' = "wait"
    /\ UNCHANGED <<alive, line, sample, wexc>>
    /\ UNCHANGED <<inputVars, handlerVars, queueVars, childVars, otherVars>>

\* lines 132-151: the raw line is put, then the loop body runs up to the put
\* of the sample; time.time() - start_time is what the clock says
WPutLine ==
    /\ wpc = "put_line"
    /\ Put(StrItem(line), "line132")
    /\ \E elapsed \in 0..MaxElapsed :
         LET body == LoopBody(line, elapsed)
         IN  IF body.raised
             THEN /\ wexc' = S_division_by_zero
                  /\ wpc' = "except"
                  /\ UNCHANGED sample
             ELSE IF body.matched
             THEN /\ sample' = body.sample
                  /\ wpc' = "put_sample"
                  /\ UNCHANGED wexc
             ELSE /\ wpc' = "read"
                  /\ UNCHANGED <<sample, wexc>>
    /\ UNCHANGED <<alive, line>>
    /\ UNCHANGED <<inputVars, handlerVars, childVars, otherVars>>

\* line 152
WPutSample ==
    /\ wpc = "put_sample"
    /\ Put(DictItem(sample), "line152")
    /\ wpc' = "read"
    /\ UNCHANGED <<alive, line, sample, wexc>>
    /\ UNCHANGED <<inputVars, handlerVars, childVars, otherVars>>

\* lines 154-158: process.wait() returns once the child has exited, and the
\* terminal item is put
WTerminal ==
    /\ wpc = "wait"
    /\ child = "exited"
    /\ Put(TerminalItem(returncode), TerminalSite(returncode))
    /\ wpc' = "return"
    /\ UNCHANGED <<alive, line, sample, wexc>>
    /\ UNCHANGED <<inputVars, handlerVars, childVars, otherVars>>

\* lines 160-162: progress_queue.put(f"error: {str(e)}")
WExcept ==
    /\ wpc = "except"
    /\ Put(StrItem(S_error_sp \o wexc), "line162")
    /\ wpc' = "return"
    /\ UNCHANGED <<alive, line, sample, wexc>>
    /\ UNCHANGED <<inputVars, handlerVars, childVars, otherVars>>

\* download_worker returns and the thread ends
WReturn ==
    /\ wpc = "return"
    /\ wpc' = "ended"
    /\ alive' = FALSE
    /\ UNCHANGED <<line, sample, wexc>>
    /\ UNCHANGED <<inputVars, handlerVars, queueVars, childVars, otherVars>>

Worker ==
    \/ WSetup \/ WReadLine \/ WReadEnd \/ WPutLine \/ WPutSample
    \/ WTerminal \/ WExcept \/ WReturn

\* ---- the child process: steamcmd, an opaque dependency

\* it writes one line, newline included
ChildPrint ==
    /\ child = "running"
    /\ emitted < MaxLines
    /\ \E l \in ChildLines : pipe' = Append(pipe, l)
    /\ emitted' = emitted + 1
    /\ UNCHANGED <<child, returncode>>
    /\ UNCHANGED <<inputVars, handlerVars, workerVars, queueVars, otherVars>>

\* it closes its output, after a last line without a newline or after none
ChildClose ==
    /\ child = "running"
    /\ \E last \in ChildLastLines :
         /\ pipe' = IF last = <<>> THEN pipe ELSE Append(pipe, last)
         /\ emitted' = IF last = <<>> THEN emitted ELSE emitted + 1
    /\ child' = "closed"
    /\ UNCHANGED returncode
    /\ UNCHANGED <<inputVars, handlerVars, workerVars, queueVars, otherVars>>

\* it exits with a return code
ChildExit ==
    /\ child = "closed"
    /\ \E code \in {0, 1} : returncode' = code
    /\ child' = "exited"
    /\ UNCHANGED <<pipe, emitted>>
    /\ UNCHANGED <<inputVars, handlerVars, workerVars, queueVars, otherVars>>

Child == ChildPrint \/ ChildClose \/ ChildExit

Next == Handler \/ Worker \/ Child

Spec == Init /\ [][Next]_vars

\* ------------------------------------------------------------- the claims

TerminalSites == {"line156", "line158", "line162"}

ErrorSites == {"line156", "line162"}

\* the places in the history where the worker put a terminal item
TerminalPuts == {i \in 1..Len(puts) : puts[i].site \in TerminalSites}

WorkerReturned == wpc \in {"return", "ended"}

JobStarted == wpc # "unstarted"

HandlerFinished == hpc \in {"done", "crashed", "dropped"}

\* C1: every run of download_worker that returns has put exactly one terminal
\* item, 'complete' or a string beginning with 'error:', whichever path it
\* took; and no run ever puts two.
C1_TerminalExclusive ==
    /\ Cardinality(TerminalPuts) <= 1
    /\ \A i \in TerminalPuts :
         /\ IsCompleteItem(puts[i].item) \/ IsErrorItem(puts[i].item)
         /\ ~(IsCompleteItem(puts[i].item) /\ IsErrorItem(puts[i].item))
    /\ WorkerReturned => Cardinality(TerminalPuts) = 1
    /\ ~WorkerReturned => TerminalPuts = {}

\* a run that ended in the except clause after it had put lines
C1_Witness ==
    /\ wpc = "ended"
    /\ Len(puts) >= 2
    /\ puts[Len(puts)].site = "line162"

\* C2 (as claimed): no job ends with its terminal item unread: once the
\* handler has finished, the terminal item the worker put has been taken by
\* the loop, and the page shows 'Download Complete!' with the download
\* location after 'complete', the error after 'error:'.
C2_TerminalConsumed ==
    (JobStarted /\ HandlerFinished) =>
        \A i \in TerminalPuts :
            /\ ngot >= i
            /\ IsCompleteItem(puts[i].item) =>
                 /\ ui.progress_info = S_download_complete
                 /\ ui.download_path =
                      [visible |-> TRUE, value |-> generate_download_path(game_id)]
            /\ IsErrorItem(puts[i].item) =>
                 /\ ui.error_output.visible
                 /\ ui.error_output.value =
                      SubSeq(puts[i].item.text, 7, Len(puts[i].item.text))

ChecksFailed ==
    \/ ~extract_game_id(game_input).ok
    \/ ~anonymous /\ (username = <<>> \/ password = <<>>)
    \/ validated = "false"

\* the first half of C3, which holds: the thread is started only after
\* extract_game_id succeeded and, when not anonymous, both credentials were
\* non-empty and validate_credentials returned True
StartOnlyAfterChecks ==
    JobStarted =>
        /\ extract_game_id(game_input).ok
        /\ game_id = extract_game_id(game_input).id
        /\ anonymous \/ (username # <<>> /\ password # <<>> /\ validated = "true")

\* C3 (as claimed): the worker is started only after the checks passed; when
\* a check fails no worker is started, nothing is put on a queue, and the
\* error output is shown.
C3_ChecksBeforeStart ==
    /\ StartOnlyAfterChecks
    /\ ChecksFailed => (~JobStarted /\ puts = <<>> /\ progress_queue = <<>>)
    /\ (ChecksFailed /\ HandlerFinished) =>
         /\ ui.error_output.visible
         /\ ui.error_output.value = exc

HasDigit(s) == \E i \in 1..Len(s) : IsDigit(s[i])

\* the run of digits of s that starts at i and goes as far as digits go
RunFrom(s, i) ==
    LET j == CHOOSE k \in i..Len(s) :
                 /\ \A m \in i..k : IsDigit(s[m])
                 /\ (k = Len(s) \/ ~IsDigit(s[k + 1]))
    IN  SubSeq(s, i, j)

\* the maximal runs of digits of s
DigitRuns(s) ==
    {RunFrom(s, i) : i \in {k \in 1..Len(s) :
                               IsDigit(s[k]) /\ (k = 1 \/ ~IsDigit(s[k - 1]))}}

\* C4 (as claimed): for any input containing a digit run extract_game_id
\* returns that run; for input with no digits it fails.
C4_AnyDigitRun ==
    ex_result.done =>
        IF HasDigit(ex_input)
        THEN ex_result.ok /\ ex_result.id \in DigitRuns(ex_input)
        ELSE ~ex_result.ok

\* where a game id may start: at the start of the input, or right after app/
IdStarts(s) ==
    {i \in 1..Len(s) :
        /\ IsDigit(s[i])
        /\ \/ i = 1
           \/ i >= 5 /\ SubSeq(s, i - 4, i - 1) = S_app}

\* C4 (amended): extract_game_id returns the digit run that starts the input
\* or, failing that, the run right after the first 'app/' that a digit
\* follows; it fails with the invalid-id error for every other input, digits
\* elsewhere or not.
C4_AnchoredDigitRun ==
    ex_result.done =>
        IF IdStarts(ex_input) = {}
        THEN ~ex_result.ok
        ELSE /\ ex_result.ok
             /\ ex_result.id =
                  RunFrom(ex_input,
                          CHOOSE i \in IdStarts(ex_input) :
                              \A j \in IdStarts(ex_input) : i <= j)

\* an id found after app/ in an input that does not start with a digit
C4_Witness ==
    /\ ex_result.done
    /\ ex_result.ok
    /\ ex_result.id = <<"5", "7">>
    /\ ex_input = <<"a", "p", "p", "/", "5", "7">>

\* C5: when download_worker caught no exception, it put its terminal item
\* after the child closed its output and exited and after every raw line and
\* sample of the run, so that the terminal item is the last one on the queue;
\* the item is 'complete' exactly when the return code is 0 and
\* 'error: Download failed' exactly when it is not.
C5_TerminalLast ==
    (WorkerReturned /\ wexc = <<>>) =>
        /\ child = "exited"
        /\ pipe = <<>>
        /\ Len(puts) >= 1
        /\ puts[Len(puts)].site \in {"line156", "line158"}
        /\ \A i \in 1..(Len(puts) - 1) : puts[i].site \in {"line132", "line152"}
        /\ Cardinality({i \in 1..Len(puts) : puts[i].site = "line132"}) = emitted
        /\ progress_queue # <<>> =>
             progress_queue[Len(progress_queue)] = puts[Len(puts)].item
        /\ puts[Len(puts)].item = StrItem(S_complete) <=> returncode = 0
        /\ puts[Len(puts)].item = StrItem(S_error_sp \o S_download_failed)
             <=> returncode # 0

\* a failed download that printed a progress line: line, sample, terminal
C5_Witness ==
    /\ wpc = "ended"
    /\ wexc = <<>>
    /\ returncode = 1
    /\ Len(puts) >= 3
    /\ puts[2].site = "line152"

PrLine == BuildLine(pr_parts)

\* C6 (as claimed): for a line holding 'progress: <float> (<d>/<t>)' the worker
\* puts the raw line and then one sample with downloaded = d, total = t and
\* percentage the fraction d/t the line reports, in percent; a line that
\* holds 'progress:' and not the pattern gives the raw line only.
C6_ProgressParsed ==
    pr_out.done =>
        /\ pr_parts.form = "match" =>
             /\ Len(pr_out.puts) = 2
             /\ pr_out.puts[1] = StrItem(PrLine)
             /\ pr_out.puts[2].kind = "dict"
             /\ pr_out.puts[2].sample.downloaded = ParseInt(pr_parts.d)
             /\ pr_out.puts[2].sample.total = ParseInt(pr_parts.t)
             /\ FracEq(pr_out.puts[2].sample.percentage,
                       Frac(100 * ParseInt(pr_parts.d), ParseInt(pr_parts.t)))
        /\ pr_parts.form \in {"spaced", "bare"} =>
             pr_out.puts = <<StrItem(PrLine)>>

\* C7: when a sample is computed with elapsed time zero, the speed is zero and
\* the remaining time is zero; the remaining time is zero whenever the speed
\* is zero (downloaded = 0); neither computation divides by zero.
C7_ZeroElapsed ==
    (pr_out.done /\ pr_out.matched) =>
        /\ ~Raises(pr_out.speed)
        /\ ~Raises(pr_out.remaining)
        /\ pr_elapsed = 0 =>
             FracIsZero(pr_out.speed) /\ FracIsZero(pr_out.remaining)
        /\ ParseInt(pr_parts.d) = 0 =>
             FracIsZero(pr_out.speed) /\ FracIsZero(pr_out.remaining)
        /\ FracIsZero(pr_out.speed) => FracIsZero(pr_out.remaining)

\* 500 of 4000 bytes at the very second the process started
C7_Witness ==
    /\ pr_out.done
    /\ pr_out.matched
    /\ pr_elapsed = 0
    /\ pr_parts.d = N_500
    /\ pr_parts.t = N_4000
    /\ FracIsZero(pr_out.speed)

\* the item the loop took last has been through lines 277-297
ItemHandled == ngot > 0 /\ hpc # "handle"

\* C8 (as claimed, its statement about the states where the loop has been
\* left): there the worker thread is no longer alive or an item beginning with
\* 'error:' was consumed; taking a raw line, a sample or 'complete' does not
\* end the loop.
C8_LoopExit ==
    (JobStarted /\ hpc \in {"except", "crashed", "done"}) =>
        \/ ~alive
        \/ ItemHandled /\ IsErrorItem(item)

\* C9 (as claimed): for a started job the handler reaches its except clause
\* only if the worker put a terminal 'error:' item, and no raw line of the
\* child is taken for an error or for completion.
C9_OnlyTerminalSignals ==
    /\ (JobStarted /\ exc # <<>>) =>
         \E i \in 1..Len(puts) : puts[i].site \in ErrorSites
    /\ (ItemHandled /\ (IsErrorItem(item) \/ IsCompleteItem(item))) =>
         puts[ngot].site # "line132"

\* C10 (as claimed): a line that matches the pattern is followed by its
\* sample, whatever d and t, and the worker goes on reading; an 'error:' item
\* is put only once the child has stopped printing or has failed to start.
C10_SampleThenGoOn ==
    /\ \A i \in 1..(Len(puts) - 1) :
         (puts[i].site = "line132" /\ ProgressSearch(puts[i].item.text).ok) =>
             puts[i + 1].site = "line152"
    /\ \A i \in 1..Len(puts) :
         puts[i].site \in ErrorSites => child \in {"none", "closed", "exited"}

=============================================================================
